---- MODULE Spec2Model ----
(***************************************************************************)
(* A model of gdelt_bulk_downloader.py: the manifest parser, the download  *)
(* thread pool running download_task, the extraction pool running          *)
(* extract_one, and main, over an output tree that persists between runs.  *)
(*                                                                         *)
(* Strings are sequences of one-character strings, a path is a sequence of *)
(* path components (strings), the file system is the set of paths that     *)
(* exist.                                                                  *)
(***************************************************************************)
EXTENDS Integers, Sequences, FiniteSets, TLC

(***************************************************************************)
(* Bounds of the model.                                                    *)
(***************************************************************************)
MaxRetries == 3
MaxWorkers == 2
MaxLines == 2

(***************************************************************************)
(* Strings.                                                                *)
(***************************************************************************)
Digits == <<"0", "1", "2", "3", "4", "5", "6", "7", "8", "9">>

IsDigit(c) == c \in {Digits[d] : d \in 1..10}

DigitValues == [c \in {Digits[d] : d \in 1..10} |-> (CHOOSE d \in 1..10 : Digits[d] = c) - 1]

DigitVal(c) == DigitValues[c]

\* str(n) for n >= 0: the decimal digits of n.
RECURSIVE Str(_)
Str(n) == IF n < 10 THEN <<Digits[n + 1]>>
          ELSE Str(n \div 10) \o <<Digits[(n % 10) + 1]>>

\* The value of the first n characters of a string of digits.
RECURSIVE DigitsValTo(_, _)
DigitsValTo(s, n) == IF n = 0 THEN 0
                     ELSE 10 * DigitsValTo(s, n - 1) + DigitVal(s[n])

\* The value of a string of digits.
DigitsVal(s) == DigitsValTo(s, Len(s))

AllDigits(s) == s # <<>> /\ \A i \in 1..Len(s) : IsDigit(s[i])

\* int(s): an optional sign followed by digits; anything else is a ValueError.
IntOk(s) == \/ AllDigits(s)
            \/ Len(s) > 1 /\ s[1] \in {"-", "+"} /\ AllDigits(Tail(s))

IntVal(s) == IF s[1] = "-" THEN 0 - DigitsVal(Tail(s))
             ELSE IF s[1] = "+" THEN DigitsVal(Tail(s))
             ELSE DigitsVal(s)

\* s.endswith(suf)
EndsWith(s, suf) == /\ Len(s) >= Len(suf)
                    /\ SubSeq(s, Len(s) - Len(suf) + 1, Len(s)) = suf

\* s[:n] of Python for n >= 0.
Prefix(s, n) == SubSeq(s, 1, IF n < Len(s) THEN n ELSE Len(s))

\* The first position of c in s from position n on, Len(s) + 1 when there is none.
RECURSIVE FirstPos(_, _, _)
FirstPos(s, c, n) == IF n > Len(s) THEN n
                     ELSE IF s[n] = c THEN n
                     ELSE FirstPos(s, c, n + 1)

\* The last position of c in s up to position n, 0 when there is none.
RECURSIVE LastPos(_, _, _)
LastPos(s, c, n) == IF n = 0 THEN 0
                    ELSE IF s[n] = c THEN n
                    ELSE LastPos(s, c, n - 1)

\* s.split(sep)[0]: the part of s before the first sep.
SplitFirst(s, sep) == SubSeq(s, 1, FirstPos(s, sep, 1) - 1)

\* Path(url).name: the part of url after its last "/".
PathName(url) == SubSeq(url, LastPos(url, "/", Len(url)) + 1, Len(url))

\* The first n components of a path joined by "/".
RECURSIVE JoinTo(_, _)
JoinTo(p, n) == IF n = 1 THEN p[1] ELSE JoinTo(p, n - 1) \o <<"/">> \o p[n]

\* str(path)
PathStr(p) == JoinTo(p, Len(p))

\* path.parents[i]: parents[0] is the directory holding path.
Parents(p, i) == SubSeq(p, 1, Len(p) - 1 - i)

\* Every ancestor directory of a path, the path itself excluded.
Ancestors(p) == {SubSeq(p, 1, n) : n \in 1..(Len(p) - 1)}

(***************************************************************************)
(* Program constants and the inputs of the runs.                           *)
(***************************************************************************)
ZipSuffix == <<".", "z", "i", "p">>
GkgSuffix == <<".", "g", "k", "g", ".", "c", "s", "v">> \o ZipSuffix

RAW_SUBDIR == <<"r", "a", "w", "d", "a", "t", "a">>
OUTPUT_ROOT == << <<"d", "a", "t", "a">> >>

UrlBase == <<"h", "t", "t", "p", ":", "/", "/", "h", "/">>

\* The lines of the manifest, each already split at whitespace.
Manifest ==
  << << <<"1", "2">>, <<"a", "b">>, UrlBase \o <<"2", "0", "1", "5", "0", "2">> \o GkgSuffix >>,
     << <<"7">>, <<"c", "d">>, UrlBase \o <<"2", "0", "1", "6", "0", "3">> \o GkgSuffix >>,
     << <<"9">>, <<"e", "f">>, UrlBase \o <<"2", "0", "1", "6", "0", "3">> \o <<".", "e", "x", "p", "o", "r", "t">> \o ZipSuffix >>,
     << <<"x">>, UrlBase \o <<"2", "0", "1", "7">> \o GkgSuffix >> >>


(***************************************************************************)
(* State.                                                                  *)
(***************************************************************************)
VARIABLES
  manifest,    \* the lines of the manifest files, each split at whitespace
  args,        \* the parsed command line of the current run
  files,       \* the paths of the regular files of the output tree
  corrupt,     \* the archives among files that are truncated or unreadable
  dirs,        \* the directories that exist
  failureLog,  \* the lines of failures.log, in the order written
  mainpc,      \* where the main thread is
  exitStatus,  \* the exit status of the process, -1 while it runs
  tasks,       \* the task list parse_masterfiles returned
  zip_paths,   \* the archives the extract-only scan found
  fut,         \* one record per submitted call: its position and what it did
  runs         \* the runs that ended: their workflow and the tree they left

vars == <<manifest, args, files, corrupt, dirs, failureLog, mainpc, exitStatus, tasks,
          zip_paths, fut, runs>>

(***************************************************************************)
(* parse_masterfiles.                                                      *)
(***************************************************************************)
\* The timestamp of a url: Path(url).name.split(".")[0].
Timestamp(url) == SplitFirst(PathName(url), ".")

\* An optional argument is <<>> when it is not given (None) and <<v>> when it
\* is given as v.  Python takes None and 0 for false.
Truthy(opt) == opt # <<>> /\ opt[1] # 0

\* One manifest line is kept, under the year filter of a.
LineAccepted(parts, a) ==
  /\ Len(parts) = 3
  /\ EndsWith(parts[3], GkgSuffix)
  /\ IntOk(parts[1])
  /\ IntOk(Prefix(Timestamp(parts[3]), 4))
  /\ LET year == IntVal(Prefix(Timestamp(parts[3]), 4))
     IN  /\ ~(Truthy(a.year_from) /\ year < a.year_from[1])
         /\ ~(Truthy(a.year_to) /\ year > a.year_to[1])

LineTask(parts) ==
  [size |-> IntVal(parts[1]), url |-> parts[3],
   year |-> IntVal(Prefix(Timestamp(parts[3]), 4))]

\* The tasks of the first n lines, in the order of the lines.
RECURSIVE ParseLines(_, _, _)
ParseLines(lines, n, a) ==
  IF n = 0 THEN <<>>
  ELSE ParseLines(lines, n - 1, a)
       \o (IF LineAccepted(lines[n], a) THEN <<LineTask(lines[n])>> ELSE <<>>)

\* Every sequence that lists the elements of s once each, by position.
Shuffles(s) ==
  {[i \in 1..Len(s) |-> s[p[i]]] :
     p \in {q \in [1..Len(s) -> 1..Len(s)] : \A i, j \in 1..Len(s) : q[i] = q[j] => i = j}}

NoFilter == [year_from |-> <<>>, year_to |-> <<>>, shuffle |-> FALSE]

\* The tasks of the manifest Manifest under no year filter, computed once.
ManifestTasks == ParseLines(Manifest, Len(Manifest), NoFilter)

\* The tasks of the kept lines, in manifest order (lines 101-127).
KeptTasks(lines, a) ==
  IF lines = Manifest /\ a.year_from = <<>> /\ a.year_to = <<>>
  THEN ManifestTasks
  ELSE ParseLines(lines, Len(lines), a)

\* The task lists parse_masterfiles may return for the lines read: the kept
\* lines in manifest order, in any order under --shuffle.
parse_masterfiles(lines, a) ==
  IF a.shuffle THEN Shuffles(KeptTasks(lines, a)) ELSE {KeptTasks(lines, a)}

(***************************************************************************)
(* The paths of a task (download_task, lines 149-156).                     *)
(***************************************************************************)
fname(task) == PathName(task.url)
year_dir(task) == OUTPUT_ROOT \o <<Str(task.year)>>
raw_dir(task) == year_dir(task) \o <<RAW_SUBDIR>>
zip_path(task) == raw_dir(task) \o <<fname(task)>>
csv_name(task) == SubSeq(fname(task), 1, Len(fname(task)) - 4)
csv_path(task) == year_dir(task) \o <<csv_name(task)>>

(***************************************************************************)
(* Archives.  A GDELT archive holds one entry, named as the archive with   *)
(* its .zip removed; a truncated archive cannot be opened.                 *)
(***************************************************************************)
ZipEntries(zp) == {SubSeq(zp[Len(zp)], 1, Len(zp[Len(zp)]) - 4)}

\* zipfile.ZipFile(zp) opens and extractall succeeds.
ZipReadable(zp) == zp \in files /\ zp \notin corrupt

\* The files after zf.extractall(dir).
ExtractAll(zp, dir) == files \cup {dir \o <<e>> : e \in ZipEntries(zp)}

(***************************************************************************)
(* The extract-only scan (main, lines 221-223).                            *)
(***************************************************************************)
\* OUTPUT_ROOT.rglob(RAW_SUBDIR/*.zip)
RGlob == {p \in files : /\ Len(p) >= Len(OUTPUT_ROOT) + 2
                        /\ SubSeq(p, 1, Len(OUTPUT_ROOT)) = OUTPUT_ROOT
                        /\ p[Len(p) - 1] = RAW_SUBDIR
                        /\ EndsWith(p[Len(p)], ZipSuffix)}

YearFiltered(ps, a) ==
  IF Truthy(a.year_from) \/ Truthy(a.year_to)
  THEN {p \in ps : /\ (IF Truthy(a.year_from) THEN a.year_from[1] ELSE 0) <= IntVal(p[Len(p) - 2])
                   /\ IntVal(p[Len(p) - 2]) <= (IF Truthy(a.year_to) THEN a.year_to[1] ELSE 9999)}
  ELSE ps

\* The directory main hands to extract_one for an archive: zp.parents[2].
ExtractOnlyDir(zp) == Parents(zp, 2)

\* Every sequence that lists the elements of S once.
Orderings(S) == {s \in [1..Cardinality(S) -> S] : \A i, j \in 1..Cardinality(S) : s[i] = s[j] => i = j}

(***************************************************************************)
(* Initial states: a command line, and an output tree that earlier runs    *)
(* (finished or interrupted) may have left.                                *)
(***************************************************************************)
\* The tasks of a manifest.
AllTasks(lines) ==
  {ParseLines(lines, Len(lines), NoFilter)[i] : i \in 1..Len(ParseLines(lines, Len(lines), NoFilter))}

\* The command lines of the runs: every workflow, pool size and retry limit,
\* no year filter and no shuffle.
ArgsSet == [skip_extract : BOOLEAN, extract_only : BOOLEAN,
            workers : 1..MaxWorkers, extract_workers : 1..MaxWorkers,
            retries : 0..MaxRetries, year_from : {<<>>}, year_to : {<<>>},
            shuffle : {FALSE}]

NewFuture == [pc |-> "queued", attempt |-> 0, requests |-> 0, fails |-> 0, sleeps |-> <<>>,
              extracts |-> 0, outcome |-> "none", csv0 |-> FALSE, zip0 |-> FALSE,
              dir |-> <<>>, records |-> <<>>]

Init ==
  /\ manifest = Manifest
  /\ args \in ArgsSet
  /\ files \in SUBSET ({zip_path(t) : t \in AllTasks(Manifest)} \cup {csv_path(t) : t \in AllTasks(Manifest)})
  /\ corrupt \in SUBSET {p \in files : EndsWith(p[Len(p)], ZipSuffix)}
  /\ dirs = UNION {Ancestors(p) : p \in files}
  /\ failureLog = <<>>
  /\ mainpc = "boot"
  /\ exitStatus = -1
  /\ tasks = <<>>
  /\ zip_paths = <<>>
  /\ fut = <<>>
  /\ runs = <<>>


(***************************************************************************)
(* The main thread.                                                        *)
(***************************************************************************)
\* The module level, were OUTPUT_ROOT made before the flags are checked.
BootMkdirFirst ==
  /\ mainpc = "boot"
  /\ dirs' = dirs \cup {OUTPUT_ROOT} \cup Ancestors(OUTPUT_ROOT)
  /\ IF args.skip_extract /\ args.extract_only
     THEN /\ mainpc' = "exited"
          /\ exitStatus' = 1
     ELSE /\ mainpc' = "main"
          /\ exitStatus' = exitStatus
  /\ UNCHANGED <<manifest, args, files, corrupt, failureLog, tasks, zip_paths, fut, runs>>

\* Module level, lines 78-85: the flag check and OUTPUT_ROOT.mkdir.
Boot ==
  /\ mainpc = "boot"
  /\ IF args.skip_extract /\ args.extract_only
     THEN /\ mainpc' = "exited"
          /\ exitStatus' = 1
          /\ dirs' = dirs
     ELSE /\ mainpc' = "main"
          /\ exitStatus' = exitStatus
          /\ dirs' = dirs \cup {OUTPUT_ROOT} \cup Ancestors(OUTPUT_ROOT)
  /\ UNCHANGED <<manifest, args, files, corrupt, failureLog, tasks, zip_paths, fut, runs>>

\* main, lines 219-228: scan the tree and submit one extract_one per archive.
MainExtractOnly ==
  /\ mainpc = "main"
  /\ args.extract_only
  /\ zip_paths' \in Orderings(YearFiltered(RGlob, args))
  /\ fut' = [i \in 1..Len(zip_paths') |-> NewFuture]
  /\ mainpc' = "wait"
  /\ UNCHANGED <<manifest, args, files, corrupt, dirs, failureLog, exitStatus, tasks, runs>>

\* main, lines 236-255: parse the manifest and submit one download_task per task.
MainDownload ==
  /\ mainpc = "main"
  /\ ~args.extract_only
  /\ tasks' \in parse_masterfiles(manifest, args)
  /\ fut' = [i \in 1..Len(tasks') |-> NewFuture]
  /\ mainpc' = "wait"
  /\ UNCHANGED <<manifest, args, files, corrupt, dirs, failureLog, exitStatus, zip_paths, runs>>

\* The files of the tree that are extracted contents: not under a raw
\* subdirectory.
Extracted(fs) == {p \in fs : p[Len(p) - 1] # RAW_SUBDIR}

\* main, lines 229-233 and 257-260: every future is done, the pool is shut
\* down and main returns.
MainFinish ==
  /\ mainpc = "wait"
  /\ \A i \in 1..Len(fut) : fut[i].pc = "done"
  /\ mainpc' = "finished"
  /\ exitStatus' = 0
  /\ runs' = Append(runs, [skip_extract |-> args.skip_extract,
                           extract_only |-> args.extract_only,
                           extracted |-> Extracted(files)])
  /\ UNCHANGED <<manifest, args, files, corrupt, dirs, failureLog, tasks, zip_paths, fut>>

\* The two-step use of the program (lines 22-28): after a run that downloaded,
\* the program is started again over the same tree with --extract-only.
Rerun ==
  /\ mainpc = "finished"
  /\ ~args.extract_only
  /\ args' = [args EXCEPT !.skip_extract = FALSE, !.extract_only = TRUE]
  /\ mainpc' = "boot"
  /\ exitStatus' = -1
  /\ tasks' = <<>>
  /\ zip_paths' = <<>>
  /\ fut' = <<>>
  /\ UNCHANGED <<manifest, files, corrupt, dirs, failureLog, runs>>

(***************************************************************************)
(* The pools.                                                              *)
(***************************************************************************)
Running(i) == fut[i].pc \notin {"queued", "done"}

PoolSizeOneLess == (IF args.extract_only THEN args.extract_workers ELSE args.workers) - 1

PoolSizeOfDownloads == args.workers

\* max_workers of the pool of this run.
PoolSize == IF args.extract_only THEN args.extract_workers ELSE args.workers

\* A worker of the pool is idle and call i is the oldest one waiting.
CanStart(i) ==
  /\ mainpc = "wait"
  /\ i \in 1..Len(fut)
  /\ fut[i].pc = "queued"
  /\ \A j \in 1..(i - 1) : fut[j].pc # "queued"
  /\ Cardinality({j \in 1..Len(fut) : Running(j)}) < PoolSize

\* The call returns.  The outcome "complete" is a return past
\* pbar_files.update(1): the task is counted as a finished file.
Return(i, f, outcome) == [fut EXCEPT ![i] = [f EXCEPT !.pc = "done", !.outcome = outcome]]

Goto(i, f, pc) == [fut EXCEPT ![i] = [f EXCEPT !.pc = pc]]

(***************************************************************************)
(* download_task.                                                          *)
(***************************************************************************)
csv_exists_unchecked(task) == FALSE

\* Line 159.
csv_exists(task) == csv_path(task) \in files

zip_exists_unchecked(task) == FALSE

\* Line 166.
zip_exists(task) == zip_path(task) \in files

\* Line 182.
LastAttempt(attempt) == attempt = args.retries

BackoffFromZero(attempt) == 2 ^ (attempt - 1)

\* Line 186: the seconds slept after a failed attempt.
Backoff(attempt) == 2 ^ attempt

\* Lines 149-163: a worker takes the task, makes its directories and returns
\* at once when the extracted file is there.
StartDownload(i) ==
  /\ ~args.extract_only
  /\ CanStart(i)
  /\ dirs' = dirs \cup {raw_dir(tasks[i])} \cup Ancestors(raw_dir(tasks[i]))
  /\ LET f == [fut[i] EXCEPT !.csv0 = csv_path(tasks[i]) \in files,
                             !.zip0 = zip_path(tasks[i]) \in files]
     IN  IF csv_exists(tasks[i])
         THEN fut' = Return(i, f, "complete")
         ELSE fut' = Goto(i, f, "check_zip")
  /\ UNCHANGED <<manifest, args, files, corrupt, failureLog, mainpc, exitStatus, tasks, zip_paths, runs>>

\* Lines 166-167 and 187-189: enter the retry loop when the archive is missing.
CheckZip(i) ==
  /\ i \in 1..Len(fut)
  /\ fut[i].pc = "check_zip"
  /\ IF ~zip_exists(tasks[i])
     THEN IF args.retries >= 1
          THEN fut' = Goto(i, [fut[i] EXCEPT !.attempt = 1], "get")
          ELSE fut' = Goto(i, fut[i], "extract")
     ELSE fut' = Goto(i, fut[i], "extract")
  /\ UNCHANGED <<manifest, args, files, corrupt, dirs, failureLog, mainpc, exitStatus, tasks, zip_paths, runs>>

\* The handler of a failed attempt, were the exception of the last attempt to
\* leave the task and shut the pool down, cancelling what is still in it.
ExceptCancelling(i, f) ==
  IF LastAttempt(f.attempt)
  THEN [j \in 1..Len(fut) |->
          IF j = i THEN [f EXCEPT !.fails = @ + 1, !.pc = "log_url"]
          ELSE IF fut[j].pc = "done" THEN fut[j]
          ELSE [fut[j] EXCEPT !.pc = "done", !.outcome = "cancelled"]]
  ELSE Goto(i, [f EXCEPT !.fails = @ + 1, !.sleeps = Append(@, Backoff(f.attempt))], "sleep")

\* Lines 181-186: the handler of a failed attempt.
Except(i, f) ==
  IF LastAttempt(f.attempt)
  THEN Goto(i, [f EXCEPT !.fails = @ + 1], "log_url")
  ELSE Goto(i, [f EXCEPT !.fails = @ + 1, !.sleeps = Append(@, Backoff(f.attempt))], "sleep")

\* Lines 169-174: one request.  The server answers 404, or the request fails
\* (no connection, a timeout, another error status), or the body follows and
\* the archive is opened for writing, which empties it.
Get(i) ==
  /\ i \in 1..Len(fut)
  /\ fut[i].pc = "get"
  /\ LET f == [fut[i] EXCEPT !.requests = @ + 1]
     IN  \/ /\ fut' = Return(i, f, "notfound")
            /\ UNCHANGED <<files, corrupt>>
         \/ /\ fut' = Except(i, f)
            /\ UNCHANGED <<files, corrupt>>
         \/ /\ fut' = Goto(i, f, "stream")
            /\ files' = files \cup {zip_path(tasks[i])}
            /\ corrupt' = corrupt \cup {zip_path(tasks[i])}
  /\ UNCHANGED <<manifest, args, dirs, failureLog, mainpc, exitStatus, tasks, zip_paths, runs>>

\* Lines 175-180: the body is written to the archive, to its end or until the
\* connection or the disk fails.
Stream(i) ==
  /\ i \in 1..Len(fut)
  /\ fut[i].pc = "stream"
  /\ \/ /\ fut' = Goto(i, fut[i], "extract")
        /\ corrupt' = corrupt \ {zip_path(tasks[i])}
     \/ /\ fut' = Except(i, fut[i])
        /\ corrupt' = corrupt
  /\ UNCHANGED <<manifest, args, files, dirs, failureLog, mainpc, exitStatus, tasks, zip_paths, runs>>

\* Lines 186 and 167: the sleep ends and the loop goes on to its next attempt,
\* or past its end when the range is used up.
Wake(i) ==
  /\ i \in 1..Len(fut)
  /\ fut[i].pc = "sleep"
  /\ IF fut[i].attempt + 1 <= args.retries
     THEN fut' = Goto(i, [fut[i] EXCEPT !.attempt = @ + 1], "get")
     ELSE fut' = Goto(i, fut[i], "extract")
  /\ UNCHANGED <<manifest, args, files, corrupt, dirs, failureLog, mainpc, exitStatus, tasks, zip_paths, runs>>

\* Extraction in download_task, were --skip-extract not looked at.
ExtractAlways(i) ==
  /\ i \in 1..Len(fut)
  /\ fut[i].pc = "extract"
  /\ LET f == [fut[i] EXCEPT !.extracts = @ + 1, !.dir = year_dir(tasks[i])]
         ok == ZipReadable(zip_path(tasks[i]))
     IN  /\ files' = IF ok THEN ExtractAll(zip_path(tasks[i]), year_dir(tasks[i]))
                     ELSE files
         /\ fut' = IF ok THEN Return(i, f, "complete") ELSE Goto(i, f, "log_zip")
  /\ UNCHANGED <<manifest, args, corrupt, dirs, failureLog, mainpc, exitStatus, tasks, zip_paths, runs>>

\* Lines 191-199: extraction in download_task.
Extract(i) ==
  /\ i \in 1..Len(fut)
  /\ fut[i].pc = "extract"
  /\ LET f == [fut[i] EXCEPT !.extracts = @ + 1, !.dir = year_dir(tasks[i])]
         ok == ZipReadable(zip_path(tasks[i]))
     IN  /\ files' = IF ~args.skip_extract /\ ok
                     THEN ExtractAll(zip_path(tasks[i]), year_dir(tasks[i]))
                     ELSE files
         /\ fut' = IF args.skip_extract THEN Return(i, fut[i], "complete")
                   ELSE IF ok THEN Return(i, f, "complete")
                   ELSE Goto(i, f, "log_zip")
  /\ UNCHANGED <<manifest, args, corrupt, dirs, failureLog, mainpc, exitStatus, tasks, zip_paths, runs>>

(***************************************************************************)
(* extract_one.                                                            *)
(***************************************************************************)
\* Lines 205-211, called with the directory main computed.
StartExtract(i) ==
  /\ args.extract_only
  /\ CanStart(i)
  /\ LET f == [fut[i] EXCEPT !.extracts = @ + 1, !.dir = ExtractOnlyDir(zip_paths[i])]
         ok == ZipReadable(zip_paths[i])
     IN  /\ files' = IF ok THEN ExtractAll(zip_paths[i], ExtractOnlyDir(zip_paths[i]))
                     ELSE files
         /\ fut' = IF ok THEN Return(i, f, "complete") ELSE Goto(i, f, "log_zip")
  /\ UNCHANGED <<manifest, args, corrupt, dirs, failureLog, mainpc, exitStatus, tasks, zip_paths, runs>>

(***************************************************************************)
(* The failure log: (OUTPUT_ROOT / "failures.log").open("a").write(line),  *)
(* lines 184, 198 and 212.  The file is opened, then the line is written;  *)
(* nothing is held between the two.                                        *)
(***************************************************************************)
\* The archive of call i.
ArchiveOf(i) == IF args.extract_only THEN zip_paths[i] ELSE zip_path(tasks[i])

LogOpen(i) ==
  /\ i \in 1..Len(fut)
  /\ fut[i].pc \in {"log_url", "log_zip"}
  /\ fut' = Goto(i, fut[i], IF fut[i].pc = "log_url" THEN "write_url" ELSE "write_zip")
  /\ UNCHANGED <<manifest, args, files, corrupt, dirs, failureLog, mainpc, exitStatus, tasks, zip_paths, runs>>

\* The line a call writes: the url after a failed fetch (line 184), the
\* archive path after a failed extraction (lines 198 and 212).
LogLine(i) == IF fut[i].pc = "write_url" THEN tasks[i].url ELSE PathStr(ArchiveOf(i))

\* The write, were an extraction error recorded on every line of the handler.
LogWriteTwice(i) ==
  /\ i \in 1..Len(fut)
  /\ fut[i].pc \in {"write_url", "write_zip"}
  /\ LET lines == IF fut[i].pc = "write_url" THEN <<LogLine(i)>> ELSE <<LogLine(i), LogLine(i)>>
     IN  /\ failureLog' = failureLog \o lines
         /\ fut' = Return(i, [fut[i] EXCEPT !.records = @ \o lines],
                          IF fut[i].pc = "write_url" THEN "failed" ELSE "extract_failed")
  /\ UNCHANGED <<manifest, args, files, corrupt, dirs, mainpc, exitStatus, tasks, zip_paths, runs>>

LogWrite(i) ==
  /\ i \in 1..Len(fut)
  /\ fut[i].pc \in {"write_url", "write_zip"}
  /\ failureLog' = Append(failureLog, LogLine(i))
  /\ fut' = Return(i, [fut[i] EXCEPT !.records = Append(@, LogLine(i))],
                   IF fut[i].pc = "write_url" THEN "failed" ELSE "extract_failed")
  /\ UNCHANGED <<manifest, args, files, corrupt, dirs, mainpc, exitStatus, tasks, zip_paths, runs>>

(***************************************************************************)
(* The specification.                                                      *)
(***************************************************************************)
\* A step of the worker that holds call i.
Step(i) ==
  \/ StartDownload(i)
  \/ CheckZip(i)
  \/ Get(i)
  \/ Stream(i)
  \/ Wake(i)
  \/ Extract(i)
  \/ StartExtract(i)
  \/ LogOpen(i)
  \/ LogWrite(i)

Next ==
  \/ Boot
  \/ MainExtractOnly
  \/ MainDownload
  \/ MainFinish
  \/ Rerun
  \/ \E i \in 1..Len(fut) : StartDownload(i)
  \/ \E i \in 1..Len(fut) : CheckZip(i)
  \/ \E i \in 1..Len(fut) : Get(i)
  \/ \E i \in 1..Len(fut) : Stream(i)
  \/ \E i \in 1..Len(fut) : Wake(i)
  \/ \E i \in 1..Len(fut) : Extract(i)
  \/ \E i \in 1..Len(fut) : StartExtract(i)
  \/ \E i \in 1..Len(fut) : LogOpen(i)
  \/ \E i \in 1..Len(fut) : LogWrite(i)

Spec == Init /\ [][Next]_vars


\* The scheduling of the code: the main thread runs on, and every worker
\* thread that holds a call keeps running it (a request, a write, a sleep and
\* an extraction each end).  Starting the program again is up to the user.
FairSpec ==
  /\ Spec
  /\ WF_vars(Boot)
  /\ WF_vars(MainExtractOnly)
  /\ WF_vars(MainDownload)
  /\ WF_vars(MainFinish)
  /\ \A i \in 1..Len(Manifest) : WF_vars(Step(i))

(***************************************************************************)
(* The parser alone: a run over a manifest of up to MaxLines lines drawn   *)
(* from well-formed and malformed lines, under year filters and shuffle.   *)
(***************************************************************************)
Ts2015 == <<"2", "0", "1", "5", "0", "2", "1", "8", "2", "3", "0", "0", "0", "0">>

LinePool ==
  { << <<"1", "2", "3", "4">>, <<"a", "b", "c", "d">>, UrlBase \o Ts2015 \o GkgSuffix >>,
    << <<"7">>, <<"c", "d">>, UrlBase \o <<"2", "0", "1", "6", "0", "3">> \o GkgSuffix >>,
    << <<"8">>, <<"e">>, UrlBase \o <<"2", "0", "2", "1">> \o GkgSuffix >>,
    << <<"-", "5">>, <<"f">>, UrlBase \o <<"2", "0", "1", "8">> \o GkgSuffix >>,
    << <<"x">>, <<"g">>, UrlBase \o <<"2", "0", "1", "7">> \o GkgSuffix >>,
    << <<"6">>, <<"h">>, UrlBase \o <<"l", "a", "s", "t", "0", "1">> \o GkgSuffix >>,
    << <<"9">>, <<"e", "f">>, UrlBase \o <<"2", "0", "1", "6">> \o <<".", "e", "x", "p", "o", "r", "t">> \o ZipSuffix >>,
    << <<"3">>, UrlBase \o <<"2", "0", "1", "7">> \o GkgSuffix >>,
    << <<"4">>, <<"i">>, UrlBase \o <<"2", "0", "1", "9">> \o GkgSuffix, <<"j">> >> }

Manifests == UNION {[1..k -> LinePool] : k \in 0..MaxLines}

\* The command lines of the parser runs: a download run under every
\* combination of an absent bound, the bound 0 and a year.
ParseArgsSet == [skip_extract : {FALSE}, extract_only : {FALSE},
                 workers : {1}, extract_workers : {1}, retries : {1},
                 year_from : {<<>>, <<0>>, <<2016>>},
                 year_to : {<<>>, <<0>>, <<2020>>},
                 shuffle : BOOLEAN]

InitParse ==
  /\ manifest \in Manifests
  /\ args \in ParseArgsSet
  /\ files = {}
  /\ corrupt = {}
  /\ dirs = {}
  /\ failureLog = <<>>
  /\ mainpc = "boot"
  /\ exitStatus = -1
  /\ tasks = <<>>
  /\ zip_paths = <<>>
  /\ fut = <<>>
  /\ runs = <<>>

ParseNext ==
  \/ Boot
  \/ MainDownload

ParseSpec == InitParse /\ [][ParseNext]_vars

(***************************************************************************)
(* Download runs over a manifest that lists one url twice.                 *)
(***************************************************************************)
DupManifest ==
  << << <<"1", "2">>, <<"a", "b">>, UrlBase \o <<"2", "0", "1", "5", "0", "2">> \o GkgSuffix >>,
     << <<"1", "2">>, <<"a", "b">>, UrlBase \o <<"2", "0", "1", "5", "0", "2">> \o GkgSuffix >>,
     << <<"7">>, <<"c", "d">>, UrlBase \o <<"2", "0", "1", "6", "0", "3">> \o GkgSuffix >> >>

DupArgsSet == [skip_extract : BOOLEAN, extract_only : {FALSE},
               workers : 1..MaxWorkers, extract_workers : {1}, retries : {2},
               year_from : {<<>>}, year_to : {<<>>}, shuffle : {FALSE}]

InitDup ==
  /\ manifest = DupManifest
  /\ args \in DupArgsSet
  /\ files = {}
  /\ corrupt = {}
  /\ dirs = {}
  /\ failureLog = <<>>
  /\ mainpc = "boot"
  /\ exitStatus = -1
  /\ tasks = <<>>
  /\ zip_paths = <<>>
  /\ fut = <<>>
  /\ runs = <<>>

DupNext ==
  \/ Boot
  \/ MainDownload
  \/ MainFinish
  \/ \E i \in 1..Len(fut) : StartDownload(i)
  \/ \E i \in 1..Len(fut) : CheckZip(i)
  \/ \E i \in 1..Len(fut) : Get(i)
  \/ \E i \in 1..Len(fut) : Stream(i)
  \/ \E i \in 1..Len(fut) : Wake(i)
  \/ \E i \in 1..Len(fut) : Extract(i)
  \/ \E i \in 1..Len(fut) : LogOpen(i)
  \/ \E i \in 1..Len(fut) : LogWrite(i)

DupSpec == InitDup /\ [][DupNext]_vars

(***************************************************************************)
(* Sessions (main, lines 250-255).                                         *)
(***************************************************************************)
\* The index in sessions of the session handed to call i: t_index % len(sessions).
SessionOf(i) == (i - 1) % args.workers

\* Call i is inside sess.get or reads the body of its response.
UsesSession(i) == fut[i].pc \in {"get", "stream"}

(***************************************************************************)
(* The claims.                                                             *)
(***************************************************************************)
Calls == 1..Len(fut)

DownloadRun == ~args.extract_only /\ ~(args.skip_extract /\ args.extract_only)

\* The number of lines of the failure log that hold x.
Count(log, x) == Cardinality({k \in 1..Len(log) : log[k] = x})

\* C1: a task whose extracted file exists when the task starts makes no
\* request, extracts nothing and ends complete.
C1_SkipWhenExtracted ==
  DownloadRun =>
    \A i \in Calls :
      fut[i].csv0 => /\ fut[i].pc = "done"
                     /\ fut[i].outcome = "complete"
                     /\ fut[i].requests = 0
                     /\ fut[i].extracts = 0

C1_Witness ==
  /\ DownloadRun
  /\ \E i \in Calls : fut[i].csv0 /\ fut[i].pc = "done" /\ fut[i].zip0

\* C2: in the download-and-extract workflow, a task whose archive exists and
\* whose extracted file does not, when the task starts, makes no request and
\* runs the extraction of that archive.
C2_ExtractWithoutFetch ==
  (DownloadRun /\ ~args.skip_extract) =>
    \A i \in Calls :
      (fut[i].zip0 /\ ~fut[i].csv0 /\ fut[i].pc # "queued") =>
         /\ fut[i].requests = 0
         /\ fut[i].pc = "done" => (fut[i].extracts = 1 /\ fut[i].dir = year_dir(tasks[i]))

C2_Witness ==
  /\ DownloadRun /\ ~args.skip_extract
  /\ \E i \in Calls : /\ fut[i].zip0 /\ ~fut[i].csv0 /\ fut[i].pc = "done"
                      /\ fut[i].extracts = 1 /\ csv_path(tasks[i]) \in files

\* C3: a task whose fetch is answered 404 makes no further attempt and leaves
\* exactly one record, its url, in the failure log.
C3_NotFoundRecorded ==
  DownloadRun =>
    \A i \in Calls :
      fut[i].outcome = "notfound" =>
         /\ fut[i].pc = "done"
         /\ Count(failureLog, tasks[i].url) = 1

\* The sleeps of a task that used up R attempts: 2^k after failed attempt k,
\* none after the last.
DoublingBackoff(R) == [k \in 1..(R - 1) |-> 2 ^ k]

\* C4: a task whose every attempt fails with an error other than 404, under a
\* retry limit R >= 1, makes exactly R attempts, sleeps 2^k after failed
\* attempt k for k = 1..R-1, leaves exactly one record (its url) in the
\* failure log and extracts nothing.
C4_ExhaustedRetries ==
  DownloadRun =>
    \A i \in Calls :
      (fut[i].pc = "done" /\ fut[i].requests >= 1 /\ fut[i].fails = fut[i].requests) =>
         /\ args.retries >= 1
         /\ fut[i].requests = args.retries
         /\ fut[i].sleeps = DoublingBackoff(args.retries)
         /\ Count(failureLog, tasks[i].url) = 1
         /\ fut[i].extracts = 0
         /\ fut[i].outcome = "failed"

C4_Witness ==
  /\ DownloadRun
  /\ \E i \in Calls : /\ fut[i].pc = "done" /\ fut[i].fails = fut[i].requests
                      /\ fut[i].requests = 3 /\ fut[i].sleeps = <<2, 4>>

\* C5: at most one worker is inside the open-append-write of failures.log.
C5_LogWritesSerialized ==
  Cardinality({i \in Calls : fut[i].pc \in {"write_url", "write_zip"}}) <= 1

\* C6: in extract-only mode an archive OUTPUT_ROOT/<year>/<rawSubdir>/<file>
\* is expanded into OUTPUT_ROOT/<year>.
C6_ExtractOnlyIntoYearDir ==
  (args.extract_only /\ ~args.skip_extract) =>
    \A i \in Calls :
      (fut[i].extracts > 0 /\ Len(zip_paths[i]) = Len(OUTPUT_ROOT) + 3) =>
         fut[i].dir = OUTPUT_ROOT \o <<zip_paths[i][Len(OUTPUT_ROOT) + 1]>>

\* C7: a download-and-extract run followed by an extract-only run over the
\* same tree leaves the extracted files the download-and-extract run left.
C7_IdempotentConvergence ==
  (/\ Len(runs) = 2
   /\ ~runs[1].skip_extract /\ ~runs[1].extract_only
   /\ runs[2].extract_only) =>
     runs[2].extracted = runs[1].extracted

\* A finished task succeeded: its extracted file was there, or its archive is
\* there and, unless download-only, was extracted.
Succeeded(i) ==
  /\ fut[i].outcome = "complete"
  /\ \/ fut[i].csv0
     \/ /\ zip_path(tasks[i]) \in files
        /\ args.skip_extract \/ (fut[i].extracts = 1 /\ csv_path(tasks[i]) \in files)

\* The failure log holds a record of the task: its url or its archive path.
Recorded(i) ==
  \/ Count(failureLog, tasks[i].url) >= 1
  \/ Count(failureLog, PathStr(zip_path(tasks[i]))) >= 1

\* C8: every finished task either succeeded or was abandoned with a record in
\* the failure log, and not both.
C8_SucceededOrRecorded ==
  DownloadRun =>
    \A i \in Calls :
      fut[i].pc = "done" => (Succeeded(i) /\ ~Recorded(i)) \/ (~Succeeded(i) /\ Recorded(i))

\* A step in which call i fails: a 404, a failed attempt, or an extraction error.
FailStep(i) ==
  /\ fut'[i].pc # fut[i].pc
  /\ \/ fut'[i].pc \in {"sleep", "log_url", "log_zip"}
     \/ fut'[i].outcome \in {"notfound", "failed", "extract_failed"}

\* C9: a step in which one task fails leaves every other task as it was, and
\* while a task sleeps in backoff every other running task can take a step.
C9_TaskIsolation ==
  /\ [][\A i \in Calls :
          (Len(fut') = Len(fut) /\ FailStep(i)) =>
             \A j \in Calls : j # i => fut'[j] = fut[j]]_vars
  /\ [](\A i \in Calls : \A j \in Calls :
          (i # j /\ fut[i].pc = "sleep" /\ Running(j)) => ENABLED Step(j))

C9_Witness ==
  \E i \in Calls : \E j \in Calls :
    /\ i # j
    /\ fut[i].pc = "sleep"
    /\ fut[j].pc = "done" /\ fut[j].outcome = "failed"

\* C10: under fair scheduling every run that starts its work ends: every
\* submitted call is done and main returns with status 0, whatever failed.
C10_Termination ==
  (mainpc = "main") ~>
     (/\ mainpc = "finished"
      /\ exitStatus = 0
      /\ \A i \in Calls : fut[i].pc = "done")

C10_Witness ==
  /\ mainpc = "finished"
  /\ exitStatus = 0
  /\ \E i \in Calls : \E j \in Calls :
       fut[i].outcome = "failed" /\ fut[j].outcome = "extract_failed"

RejectedRun == args.skip_extract /\ args.extract_only

\* C11: a run with both --skip-extract and --extract-only takes one step only,
\* the exit with status 1, and that step creates no directory, reads no
\* manifest, submits no call and changes no file.
C11_ConflictRejected ==
  [][RejectedRun =>
       /\ mainpc = "boot"
       /\ mainpc' = "exited"
       /\ exitStatus' = 1
       /\ UNCHANGED <<files, corrupt, dirs, failureLog, tasks, zip_paths, fut>>]_vars

C11_Witness ==
  /\ RejectedRun
  /\ mainpc = "exited"
  /\ exitStatus = 1
  /\ dirs = {}
  /\ tasks = <<>> /\ fut = <<>>

\* The extraction of call i was attempted and failed: its archive cannot be read.
ExtractionFailed(i) == fut[i].extracts >= 1 /\ ~ZipReadable(ArchiveOf(i))

\* C14: a call whose extraction failed ends having written exactly one record,
\* the path of its archive, to the failure log; the step in which the
\* extraction fails leaves main and every other call as they were, and every
\* other call that runs can still take a step.
C14_ExtractFailureRecorded ==
  /\ [](\A i \in Calls :
          (fut[i].pc = "done" /\ ExtractionFailed(i)) =>
             /\ fut[i].outcome = "extract_failed"
             /\ fut[i].records = <<PathStr(ArchiveOf(i))>>
             /\ Count(failureLog, PathStr(ArchiveOf(i))) >= 1)
  /\ [][\A i \in Calls :
          (Len(fut') = Len(fut) /\ fut[i].pc # "log_zip" /\ fut'[i].pc = "log_zip") =>
             /\ mainpc' = mainpc
             /\ \A j \in Calls : j # i => fut'[j] = fut[j]]_vars
  /\ [](\A i \in Calls : \A j \in Calls :
          (i # j /\ fut[i].pc \in {"log_zip", "write_zip"} /\ Running(j)) => ENABLED Step(j))

C14_Witness ==
  /\ mainpc = "finished"
  /\ \E i \in Calls : \E j \in Calls :
       /\ i < j
       /\ ExtractionFailed(i) /\ fut[i].records = <<PathStr(ArchiveOf(i))>>
       /\ fut[j].extracts = 1 /\ fut[j].outcome = "complete"

\* The calls a worker has taken and not yet returned from.
InFlight == {i \in Calls : Running(i)}

\* C16: the download calls in flight, those sleeping in backoff included, are
\* at most --workers; in an extract-only run the extractions in flight are at
\* most --extract-workers, whatever --workers is.
C16_BoundedParallelism ==
  IF args.extract_only
  THEN Cardinality(InFlight) <= args.extract_workers
  ELSE Cardinality(InFlight) <= args.workers

C16_Witness ==
  /\ args.extract_only
  /\ args.workers > args.extract_workers
  /\ Cardinality(InFlight) = args.extract_workers
  /\ \E i \in Calls : fut[i].pc = "queued"

\* The archives of the tree: the files under a raw subdirectory.
Archives(fs) == fs \ Extracted(fs)

\* C17: a step of a download-only run extracts nothing and creates no
\* extracted file; a step of an extract-only run reads no manifest, makes no
\* request and creates no archive.
C17_ModesKeepStagesApart ==
  [][((args.skip_extract /\ ~args.extract_only) =>
         (/\ Extracted(files') = Extracted(files)
          /\ \A i \in 1..Len(fut') : fut'[i].extracts = 0))
     /\
     ((args.extract_only /\ ~args.skip_extract) =>
         (/\ tasks' = <<>>
          /\ \A i \in 1..Len(fut') : fut'[i].requests = 0
          /\ Archives(files') = Archives(files)))]_vars

C17_Witness ==
  /\ args.skip_extract /\ ~args.extract_only
  /\ mainpc = "finished"
  /\ \E i \in Calls : /\ fut[i].requests >= 1
                      /\ fut[i].outcome = "complete"
                      /\ ZipReadable(zip_path(tasks[i]))
                      /\ csv_path(tasks[i]) \notin files

\* C18: a task attempts extraction only on an archive that exists, whatever
\* the retry limit.
C18_ExtractOnlyExistingArchive ==
  DownloadRun =>
    \A i \in Calls : fut[i].extracts >= 1 => zip_path(tasks[i]) \in files

\* C19: the archive a finished task fetched in this run, when it is left in
\* the tree, is complete.
C19_NoPartialArchive ==
  DownloadRun =>
    \A i \in Calls :
      (fut[i].pc = "done" /\ fut[i].requests >= 1 /\ zip_path(tasks[i]) \in files) =>
         zip_path(tasks[i]) \notin corrupt

\* A line the parser is to keep under no year filter: three fields, the
\* archive suffix, a size that is a non-negative integer.
WellFormed(parts) ==
  /\ Len(parts) = 3
  /\ EndsWith(parts[3], GkgSuffix)
  /\ IntOk(parts[1])
  /\ IntVal(parts[1]) >= 0

\* C12: under no year filter the task list has one task for each line with
\* three fields, the archive suffix and a non-negative integer size, and no
\* other, with or without --shuffle.
C12_AcceptedLines ==
  (mainpc = "wait" /\ args.year_from = <<>> /\ args.year_to = <<>>) =>
     /\ Len(tasks) = Cardinality({n \in 1..Len(manifest) : WellFormed(manifest[n])})
     /\ \A n \in 1..Len(manifest) :
          WellFormed(manifest[n]) <=>
             (Len(manifest[n]) = 3 /\ \E k \in 1..Len(tasks) : tasks[k].url = manifest[n][3])

\* An accepted line whose year is within the bounds that are given.
InYearRange(parts, a) ==
  /\ LineAccepted(parts, NoFilter)
  /\ a.year_from = <<>> \/ LineTask(parts).year >= a.year_from[1]
  /\ a.year_to = <<>> \/ LineTask(parts).year <= a.year_to[1]

\* C13: an accepted line becomes a task exactly when its year is at least
\* --year-from, when given, and at most --year-to, when given, for every
\* integer bound.
C13_YearFilter ==
  mainpc = "wait" =>
     /\ Len(tasks) = Cardinality({n \in 1..Len(manifest) : InYearRange(manifest[n], args)})
     /\ \A k \in 1..Len(tasks) :
          \E n \in 1..Len(manifest) : InYearRange(manifest[n], args) /\ tasks[k] = LineTask(manifest[n])

\* C15: no two calls use the same session at the same time.
C15_SessionNotShared ==
  \A i \in Calls : \A j \in Calls :
    (i # j /\ UsesSession(i) /\ UsesSession(j)) => SessionOf(i) # SessionOf(j)

\* C20: no two calls write the same archive at the same time.
C20_OneWriterPerArchive ==
  \A i \in Calls : \A j \in Calls :
    (i # j /\ fut[i].pc = "stream" /\ fut[j].pc = "stream") =>
       zip_path(tasks[i]) # zip_path(tasks[j])

====
